---- MODULE Spec2Model ----
(***************************************************************************)
(* The parallel batch-conversion engine of ZlidarToLas::run                *)
(* (src/src/tools/lidar_analysis/zlidar_to_las.rs, lines 126-275):         *)
(* the reading of the argument list and the splitting of the input         *)
(* string,                                                                 *)
(* a mutex-guarded range of file indices, num_procs worker threads that    *)
(* claim an index, convert one file and send one String on an mpsc         *)
(* channel, and the main thread that receives num_files Strings.           *)
(* Spec and FairSpec start with the threads spawned, for any input list;   *)
(* RunSpec follows whole runs from the argument list on; SplitSpec follows *)
(* the reading of -i=<string> and the splitting of the string alone.       *)
(*                                                                         *)
(* Strings are sequences of one-character strings, so that contains,       *)
(* replace, extension and to_lowercase are computed, not assumed.          *)
(* panic! inside a spawned thread unwinds that thread only (the source     *)
(* calls neither process::exit nor abort); float-to-usize casts saturate   *)
(* (NaN -> 0, +inf -> usize::MAX).                                         *)
(***************************************************************************)
EXTENDS Integers, Sequences, FiniteSets, TLC

\* ---------------------------------------------------------------- bounds
MaxFiles == 2
MaxWorkers == 3
MaxPoints == 2

\* stands for usize::MAX, the result of casting +inf to usize (the largest
\* integer the model checker represents is used in its place)
UsizeMax == 2147483647

\* ---------------------------------------------------------------- strings
sep == "/"

ZLIDAR == <<"z", "l", "i", "d", "a", "r">>
LAS == <<"l", "a", "s">>
DOT_LAS == <<".">> \o LAS
EMPTY == <<"E", "m", "p", "t", "y">>
EMPTY_FILE_NAME_FOR_TILE ==
    EMPTY \o <<" ", "f", "i", "l", "e", " ", "n", "a", "m", "e", " ",
               "f", "o", "r", " ", "t", "i", "l", "e", " ">>
COMPLETED_CONVERSION_OF ==
    <<"C", "o", "m", "p", "l", "e", "t", "e", "d", " ",
      "c", "o", "n", "v", "e", "r", "s", "i", "o", "n", " ", "o", "f", " ">>

\* the working directory handed to run by the caller
working_directory == <<"/", "w", "/">>

EndsWith(s, suf) ==
    /\ Len(suf) <= Len(s)
    /\ SubSeq(s, Len(s) - Len(suf) + 1, Len(s)) = suf

\* str::contains
Contains(s, sub) ==
    \E j \in 1..(Len(s) - Len(sub) + 1) : SubSeq(s, j, j + Len(sub) - 1) = sub

\* str::replace: every non-overlapping match, left to right
Replace(s, from, to) ==
    LET MatchAt(j) ==
            /\ Len(from) > 0
            /\ j + Len(from) - 1 <= Len(s)
            /\ SubSeq(s, j, j + Len(from) - 1) = from
        \* rest[j]: the replaced text of s from position j on
        rest[j \in 1..(Len(s) + 1)] ==
            IF j > Len(s) THEN <<>>
            ELSE IF MatchAt(j) THEN to \o rest[j + Len(from)]
            ELSE <<s[j]>> \o rest[j + 1]
    IN  rest[1]

LowerChar(c) ==
    CASE c = "E" -> "e"
      [] c = "Z" -> "z"
      [] c = "L" -> "l"
      [] c = "A" -> "a"
      [] c = "S" -> "s"
      [] c = "I" -> "i"
      [] c = "D" -> "d"
      [] c = "R" -> "r"
      [] c = "N" -> "n"
      [] OTHER -> c

\* str::to_lowercase
ToLowercase(s) == [j \in 1..Len(s) |-> LowerChar(s[j])]

\* decimal text of a small index, as "{}" formats it
Digits(n) ==
    IF n < 10 THEN <<<<"0">>, <<"1">>, <<"2">>, <<"3">>, <<"4">>,
                     <<"5">>, <<"6">>, <<"7">>, <<"8">>, <<"9">>>>[n + 1]
    ELSE <<"1", "0">>

\* positions of character c in s
Positions(s, c) == {j \in 1..Len(s) : s[j] = c}

Max(S) == CHOOSE x \in S : \A y \in S : y <= x

\* Path::file_name: the last component of the path
FileNameOf(path) ==
    IF Positions(path, sep) = {} THEN path
    ELSE SubSeq(path, Max(Positions(path, sep)) + 1, Len(path))

\* Path::extension is Some(..) iff the file name has a '.' that is not its
\* first character
HasExtension(path) ==
    \E j \in Positions(FileNameOf(path), ".") : j > 1

\* get_file_extension: the text after the last '.' of the file name
get_file_extension(path) ==
    LET fname == FileNameOf(path)
    IN  SubSeq(fname, Max(Positions(fname, ".")) + 1, Len(fname))

\* LasFile::get_short_filename: the base name without directory and
\* extension
get_short_filename(path) ==
    LET fname == FileNameOf(path)
    IN  IF HasExtension(path)
        THEN SubSeq(fname, 1, Max(Positions(fname, ".")) - 1)
        ELSE fname

\* the n-th smallest element of a set of numbers
Nth(S, n) == CHOOSE x \in S : Cardinality({y \in S : y < x}) = n - 1

\* str::split on a one-character pattern: the pieces between the matches,
\* empty pieces included
SplitOn(s, c) ==
    LET P == Positions(s, c)
        cut(j) == IF j = 0 THEN 0
                  ELSE IF j > Cardinality(P) THEN Len(s) + 1
                  ELSE Nth(P, j)
    IN  [j \in 1..(Cardinality(P) + 1) |-> SubSeq(s, cut(j - 1) + 1, cut(j) - 1)]

\* str::trim
Trim(s) ==
    LET Ink == {j \in 1..Len(s) : s[j] # " "}
    IN  IF Ink = {} THEN <<>>
        ELSE SubSeq(s, CHOOSE x \in Ink : \A y \in Ink : x <= y, Max(Ink))

\* ---------------------------------------------------------------- inputs
\* input tokens as lines 175-180 leave them: trimmed, quotes already removed
TokBlank == <<>>
TokA == <<"a", ".">> \o ZLIDAR
TokDirA == <<"d", "/", "a", ".">> \o ZLIDAR
TokEmpty == EMPTY \o <<".">> \o ZLIDAR
TokLas == <<"b", ".">> \o LAS

Tokens == {TokBlank, TokA, TokDirA, TokEmpty, TokLas}

InputLists == UNION {[1..n -> Tokens] : n \in 1..MaxFiles}

\* the --outdir values tried: absent, without and with trailing separator
OutDirs == {<<>>, <<"/", "o">>, <<"/", "o", "/">>}

\* lines 171-173
NormalizeOutdir(dir) ==
    IF Len(dir) > 0 /\ ~EndsWith(dir, <<sep>>) THEN dir \o <<sep>> ELSE dir

\* ---------------------------------------------------------------- arguments
FLAG_I == <<"-", "i">>
FLAG_INPUTS == <<"-", "i", "n", "p", "u", "t", "s">>
FLAG_INPUT == <<"-", "i", "n", "p", "u", "t">>
FLAG_OUTDIR == <<"-", "o", "u", "t", "d", "i", "r">>

\* lines 137-138
Unquoted(arg) == Replace(Replace(arg, <<"\"">>, <<>>), <<"'">>, <<>>)

\* lines 139-140: vec
KeyVal(arg) == SplitOn(Unquoted(arg), "=")

\* line 145
FlagVal(arg) == Replace(ToLowercase(KeyVal(arg)[1]), <<"-", "-">>, <<"-">>)

\* line 146
IsInputFlag(arg) == FlagVal(arg) \in {FLAG_I, FLAG_INPUTS, FLAG_INPUT}

\* line 152
IsOutdirFlag(arg) == ~IsInputFlag(arg) /\ FlagVal(arg) = FLAG_OUTDIR

\* lines 150, 156: args[i + 1] is read past the end of the argument list
ArgumentOutOfBounds(a) ==
    /\ Len(a) > 0
    /\ IsInputFlag(a[Len(a)]) \/ IsOutdirFlag(a[Len(a)])
    /\ Len(KeyVal(a[Len(a)])) = 1

\* lines 147-151, 153-157: the value that goes with the flag at position i
ValueOf(a, i) == IF Len(KeyVal(a[i])) > 1 THEN KeyVal(a[i])[2] ELSE a[i + 1]

\* lines 126, 136-151: input_files after the loop (the last flag wins)
ReadInputFiles(a) ==
    LET I == {i \in 1..Len(a) : IsInputFlag(a[i])}
    IN  IF I = {} THEN <<>> ELSE ValueOf(a, Max(I))

\* lines 127, 136-158: output_directory after the loop
ReadOutputDirectory(a) ==
    LET I == {i \in 1..Len(a) : IsOutdirFlag(a[i])}
    IN  IF I = {} THEN <<>> ELSE ValueOf(a, Max(I))

\* mutant: the comma is tried first, the semicolon only as the fallback
SplitInputFiles_comma_first(s) ==
    LET semi == SplitOn(s, ";")
        comma == SplitOn(s, ",")
    IN  IF Len(comma) = 1
        THEN [j \in 1..Len(semi) |-> Trim(semi[j])]
        ELSE [j \in 1..Len(comma) |-> Trim(comma[j])]

\* lines 175-180: vec
SplitInputFiles(s) ==
    LET semi == SplitOn(s, ";")
        comma == SplitOn(s, ",")
    IN  IF Len(semi) = 1
        THEN [j \in 1..Len(comma) |-> Trim(comma[j])]
        ELSE [j \in 1..Len(semi) |-> Trim(semi[j])]

\* the input string that lists the given tokens
JoinWith(list, c) ==
    LET joined[n \in 0..Len(list)] ==
            IF n = 0 THEN <<>>
            ELSE IF n = 1 THEN list[1]
            ELSE joined[n - 1] \o <<c>> \o list[n]
    IN  joined[Len(list)]

DASH_I_EQ == <<"-", "i", "=">>
OUTDIR_EQ == <<"-", "-", "o", "u", "t", "d", "i", "r", "=">>

\* an argument list that names the given inputs and output directory
ArgumentsFor(list, dir) ==
    <<DASH_I_EQ \o JoinWith(list, ";")>>
        \o (IF Len(dir) = 0 THEN <<>> ELSE <<OUTDIR_EQ \o dir>>)

\* the source paths tried by whole runs: in the working directory, in a
\* directory, in a directory whose name ends in .zlidar; extension in lower
\* and upper case, and a foreign extension
PathDirs == {<<>>, <<"d", "/">>, <<"d", ".">> \o ZLIDAR \o <<"/">>}
PathExts == {ZLIDAR, <<"Z", "L", "I", "D", "A", "R">>, LAS}
PathTokens ==
    {dir \o <<"a", ".">> \o ext : dir \in PathDirs, ext \in PathExts}
        \cup {TokBlank}

\* the argument lists tried by whole runs: none, one input with and without
\* --outdir, no input flag, flag and value as two arguments, a flag without
\* its value, a quoted comma-separated list
RunArgLists ==
    {<<>>}
        \cup {<<DASH_I_EQ \o t>> : t \in PathTokens}
        \cup {<<DASH_I_EQ \o t, OUTDIR_EQ \o d>> : t \in PathTokens, d \in OutDirs}
        \cup {<<OUTDIR_EQ \o <<"/", "o">>>>,
              <<FLAG_I, TokA>>,
              <<FLAG_I>>,
              <<<<"-", "-", "I", "n", "p", "u", "t", "s", "=", "\"", "a", ".", "z", "l", "i", "d", "a", "r", ",", " ", "d", "/", "a", ".", "z", "l", "i", "d", "a", "r", "\"">>>>}

\* the input strings tried by the splitting alone
MaxLen == 4
SplitAlphabet == {"a", ";", ",", " "}
InputStrings == UNION {[1..n -> SplitAlphabet] : n \in 0..MaxLen}

\* ---------------------------------------------------------------- paths
\* line 206
StripQuotes(tok) == Replace(tok, <<"\"">>, <<>>)

\* lines 208-210
ResolvePath(tok) ==
    IF ~Contains(tok, <<sep>>) /\ ~Contains(tok, <<"/">>)
    THEN working_directory \o tok
    ELSE tok

\* lines 220-223
ExtensionOk(path) ==
    /\ HasExtension(path)
    /\ ToLowercase(get_file_extension(path)) = ZLIDAR

\* lines 225-229
OutputPath(path, outdir) ==
    IF Len(outdir) = 0
    THEN Replace(path, <<".">> \o get_file_extension(path), DOT_LAS)
    ELSE outdir \o get_short_filename(path) \o DOT_LAS

\* input.header.number_of_points of the sources on disk: an empty file, a
\* file of one record, and files of MaxPoints records
number_of_points(path) ==
    IF get_short_filename(path) = EMPTY THEN 0
    ELSE IF Contains(path, <<"d", sep>>) THEN 1
    ELSE MaxPoints

\* The values above, tabulated once per token (and output directory)
AllTokens == Tokens \cup PathTokens

StrippedToken == [t \in AllTokens |-> StripQuotes(t)]

ResolvedInput ==
    [t \in AllTokens |->
        IF Len(StrippedToken[t]) = 0 THEN <<>> ELSE ResolvePath(StrippedToken[t])]

ShortFilename ==
    [t \in AllTokens |->
        IF Len(StrippedToken[t]) = 0 THEN <<>>
        ELSE get_short_filename(ResolvedInput[t])]

ExtensionIsZlidar ==
    [t \in AllTokens |-> Len(StrippedToken[t]) # 0 /\ ExtensionOk(ResolvedInput[t])]

NumberOfPoints ==
    [t \in AllTokens |->
        IF ExtensionIsZlidar[t] THEN number_of_points(ResolvedInput[t]) ELSE 0]

OutputDirectories == {NormalizeOutdir(d) : d \in OutDirs}

OutputFile ==
    [t \in AllTokens |-> [d \in OutputDirectories |->
        IF ExtensionIsZlidar[t] THEN OutputPath(ResolvedInput[t], d) ELSE <<>>]]

\* ---------------------------------------------------------------- numbers
\* (a as f64 / b as f64) as usize: x/0 is +inf (NaN for 0/0), and the cast
\* saturates
FloatDivToUsize(a, b) ==
    IF b = 0 THEN (IF a = 0 THEN 0 ELSE UsizeMax) ELSE a \div b

\* line 238
WorkerProgress(pp, n) == FloatDivToUsize(100 * (pp + 1), n - 1)

\* mutant: the percentage is taken from the number of messages received
AggregatorProgress_count(t, n) == FloatDivToUsize(100 * (t + 1), n - 1)

\* line 269
AggregatorProgress(t, n) == FloatDivToUsize(100 * t, n - 1)

\* ---------------------------------------------------------------- state
\* chan and stdout entries carry, besides the text the program handles, the
\* index k the text is about (history, never read by the program)
VARIABLES
    args,              \* the argument list handed to run
    input_files,       \* the input string read from the arguments
    inputs,            \* Arc<Vec<String>>, immutable
    output_directory,  \* the output directory, normalised by line 172
    verbose,
    num_procs,         \* num_cpus::get()
    tile_list,         \* the Range<usize> inside the Mutex
    lock,              \* holder of the Mutex, 0 when free
    pc,                \* position of each worker thread
    k,                 \* worker local: claimed index
    n_points,          \* worker local: input.header.number_of_points
    p,                 \* worker local: point-record loop counter
    output,            \* worker local: records added to the output LasFile
    worker_old_progress, \* worker local: old_progress (line 198)
    chan,              \* mpsc channel contents
    mainpc,            \* position of the main thread
    tile,              \* main thread: loop counter of line 261
    old_progress,      \* main thread: old_progress (line 260)
    stdout,            \* lines printed, in order
    files,             \* target files written
    hist,              \* history: per index, the steps taken for it, in order
    divisors           \* history: the denominators the progress formulas used

config == <<args, input_files, inputs, output_directory, verbose, num_procs>>
locals == <<k, n_points, p, output, worker_old_progress>>
mainvars == <<mainpc, tile, old_progress>>
vars == <<args, input_files, inputs, output_directory, verbose, num_procs, tile_list, lock, pc,
          k, n_points, p, output, worker_old_progress, chan, mainpc, tile,
          old_progress, stdout, files, hist, divisors>>

num_files == Len(inputs)
Workers == 1..num_procs
Indices == 0..(num_files - 1)

\* what a worker computes for the claimed index ix (lines 206-232)
input_token(ix) == StrippedToken[inputs[ix + 1]]
input_file(ix) == ResolvedInput[inputs[ix + 1]]
short_filename(ix) == ShortFilename[inputs[ix + 1]]
output_file(ix) == OutputFile[inputs[ix + 1]][output_directory]
header_points(ix) == NumberOfPoints[inputs[ix + 1]]

\* input.get_record(p): the p-th record of the source, opaque
get_record(path, n) == <<path, n>>

\* line 253
EmptyMessage(ix) == EMPTY_FILE_NAME_FOR_TILE \o Digits(ix) \o <<".">>

\* lines 263-267
StatusLine(file_nm, n) ==
    IF ~Contains(file_nm, EMPTY) /\ n > 1
    THEN COMPLETED_CONVERSION_OF \o file_nm
    ELSE file_nm

\* hist[i] with one more step, taken by worker w
Logged(h, i, w, step) == [h EXCEPT ![i] = Append(@, [w |-> w, step |-> step])]

\* the state at line 189, the worker threads spawned, for any input list
\* and output directory
Init ==
    /\ inputs \in InputLists
    /\ output_directory \in OutputDirectories
    /\ args = ArgumentsFor(inputs, output_directory)
    /\ input_files = JoinWith(inputs, ";")
    /\ verbose \in BOOLEAN
    /\ num_procs \in 1..MaxWorkers
    /\ tile_list = [start |-> 0, end |-> Len(inputs)]
    /\ lock = 0
    /\ pc = [w \in 1..num_procs |-> "loop"]
    /\ k = [w \in 1..num_procs |-> 0]
    /\ n_points = [w \in 1..num_procs |-> 0]
    /\ p = [w \in 1..num_procs |-> 0]
    /\ output = [w \in 1..num_procs |-> <<>>]
    /\ worker_old_progress = [w \in 1..num_procs |-> 1]
    /\ chan = <<>>
    /\ mainpc = "recv"
    /\ tile = 0
    /\ old_progress = 1
    /\ stdout = <<>>
    /\ files = {}
    /\ hist = [i \in 0..(Len(inputs) - 1) |-> <<>>]
    /\ divisors = {}

\* ---------------------------------------------------------------- arguments
\* the state on entry to run with one of the given argument lists
Entry(lists) ==
    /\ args \in lists
    /\ input_files = <<>>
    /\ inputs = <<>>
    /\ output_directory = <<>>
    /\ verbose \in BOOLEAN
    /\ num_procs \in 1..MaxWorkers
    /\ tile_list = [start |-> 0, end |-> 0]
    /\ lock = 0
    /\ pc = [w \in 1..num_procs |-> "unspawned"]
    /\ k = [w \in 1..num_procs |-> 0]
    /\ n_points = [w \in 1..num_procs |-> 0]
    /\ p = [w \in 1..num_procs |-> 0]
    /\ output = [w \in 1..num_procs |-> <<>>]
    /\ worker_old_progress = [w \in 1..num_procs |-> 1]
    /\ chan = <<>>
    /\ mainpc = "args"
    /\ tile = 0
    /\ old_progress = 1
    /\ stdout = <<>>
    /\ files = {}
    /\ hist = <<>>
    /\ divisors = {}

RunInit == Entry(RunArgLists)

\* lines 130-135: run returns Err(InvalidInput)
NoParameters ==
    /\ mainpc = "args"
    /\ Len(args) = 0
    /\ mainpc' = "err"
    /\ UNCHANGED <<config, tile_list, lock, pc, locals, chan, tile, old_progress,
                   stdout, files, hist, divisors>>

\* lines 150, 156: the flag is the last argument and has no "=": the index
\* is out of bounds and the main thread panics
ArgumentIndexPanic ==
    /\ mainpc = "args"
    /\ ArgumentOutOfBounds(args)
    /\ mainpc' = "panicked"
    /\ UNCHANGED <<config, tile_list, lock, pc, locals, chan, tile, old_progress,
                   stdout, files, hist, divisors>>

\* lines 136-165: the loop over the arguments, then the banner
ReadArguments ==
    /\ mainpc = "args"
    /\ Len(args) > 0
    /\ ~ArgumentOutOfBounds(args)
    /\ input_files' = ReadInputFiles(args)
    /\ output_directory' = ReadOutputDirectory(args)
    /\ stdout' = IF verbose THEN Append(stdout, [kind |-> "welcome"]) ELSE stdout
    /\ mainpc' = "parsed"
    /\ UNCHANGED <<args, inputs, verbose, num_procs, tile_list, lock, pc, locals,
                   chan, tile, old_progress, files, hist, divisors>>

\* lines 171-257: the output directory is normalised, the input string is
\* split, the range and the channel are created and the threads spawned
SplitInputs ==
    /\ mainpc = "parsed"
    /\ output_directory' = NormalizeOutdir(output_directory)
    /\ inputs' = SplitInputFiles(input_files)
    /\ tile_list' = [start |-> 0, end |-> Len(inputs')]
    /\ pc' = [w \in 1..num_procs |-> "loop"]
    /\ hist' = [i \in 0..(Len(inputs') - 1) |-> <<>>]
    /\ mainpc' = "recv"
    /\ UNCHANGED <<args, input_files, verbose, num_procs, lock, locals, chan, tile,
                   old_progress, stdout, files, divisors>>

\* ---------------------------------------------------------------- workers
\* line 199 and the lock() of line 201; k < num_files holds whenever a
\* worker is at the head of the loop
Acquire(w) ==
    /\ pc[w] = "loop"
    /\ k[w] < num_files
    /\ lock = 0
    /\ lock' = w
    /\ pc' = [pc EXCEPT ![w] = "locked"]
    /\ UNCHANGED <<config, tile_list, locals, chan, mainvars, stdout, files, hist, divisors>>

\* Range::next
RangeHasNext(r) == r.start < r.end

\* mutant: next() returns the front of the range without advancing it
RangeAdvance_stuck(r) == r

\* mutant: next() moves the front of the range two places on
RangeAdvance_skips(r) == [r EXCEPT !.start = r.start + 2]

RangeAdvance(r) == [r EXCEPT !.start = r.start + 1]

\* mutant: the guard outlives the claim, the lock stays with the worker
ClaimSome_keeps_lock(w) ==
    /\ pc[w] = "locked"
    /\ lock = w
    /\ RangeHasNext(tile_list)
    /\ k' = [k EXCEPT ![w] = tile_list.start]
    /\ tile_list' = RangeAdvance(tile_list)
    /\ pc' = [pc EXCEPT ![w] = "claimed"]
    /\ hist' = Logged(hist, tile_list.start, w, "claim")
    /\ UNCHANGED <<config, lock, n_points, p, output, worker_old_progress, chan,
                   mainvars, stdout, files, divisors>>

\* lines 201-202: next() is Some(val); the guard is dropped
ClaimSome(w) ==
    /\ pc[w] = "locked"
    /\ lock = w
    /\ RangeHasNext(tile_list)
    /\ k' = [k EXCEPT ![w] = tile_list.start]
    /\ tile_list' = RangeAdvance(tile_list)
    /\ lock' = 0
    /\ pc' = [pc EXCEPT ![w] = "claimed"]
    /\ hist' = Logged(hist, tile_list.start, w, "claim")
    /\ UNCHANGED <<config, n_points, p, output, worker_old_progress, chan,
                   mainvars, stdout, files, divisors>>

\* mutant: the None of an exhausted range is unwrapped, the thread panics
ClaimNone_panics(w) ==
    /\ pc[w] = "locked"
    /\ lock = w
    /\ ~RangeHasNext(tile_list)
    /\ lock' = 0
    /\ pc' = [pc EXCEPT ![w] = "panicked"]
    /\ UNCHANGED <<config, tile_list, locals, chan, mainvars, stdout, files, hist, divisors>>

\* lines 201-203: next() is None; the guard is dropped and the thread ends
ClaimNone(w) ==
    /\ pc[w] = "locked"
    /\ lock = w
    /\ ~RangeHasNext(tile_list)
    /\ lock' = 0
    /\ pc' = [pc EXCEPT ![w] = "done"]
    /\ UNCHANGED <<config, tile_list, locals, chan, mainvars, stdout, files, hist, divisors>>

\* mutant: the thread leaves the loop after reporting a blank token
SendEmpty_break(w) ==
    /\ pc[w] = "claimed"
    /\ Len(input_token(k[w])) = 0
    /\ chan' = Append(chan, [text |-> EmptyMessage(k[w]), k |-> k[w]])
    /\ hist' = Logged(hist, k[w], w, "send_empty")
    /\ pc' = [pc EXCEPT ![w] = "done"]
    /\ UNCHANGED <<config, tile_list, lock, locals, mainvars, stdout, files, divisors>>

\* lines 207, 252-254
SendEmpty(w) ==
    /\ pc[w] = "claimed"
    /\ Len(input_token(k[w])) = 0
    /\ chan' = Append(chan, [text |-> EmptyMessage(k[w]), k |-> k[w]])
    /\ hist' = Logged(hist, k[w], w, "send_empty")
    /\ pc' = [pc EXCEPT ![w] = "loop"]
    /\ UNCHANGED <<config, tile_list, lock, locals, mainvars, stdout, files, divisors>>

\* lines 212-216: LasFile::new fails, the thread panics
OpenFail(w) ==
    /\ pc[w] = "claimed"
    /\ Len(input_token(k[w])) # 0
    /\ hist' = Logged(hist, k[w], w, "open_failed")
    /\ pc' = [pc EXCEPT ![w] = "panicked"]
    /\ UNCHANGED <<config, tile_list, lock, locals, chan, mainvars, stdout, files, divisors>>

\* mutant: the thread panics with the guard of the cursor in hand, and the
\* lock is never given back
ExtensionPanic_poisons(w) ==
    /\ pc[w] = "claimed"
    /\ Len(input_token(k[w])) # 0
    /\ ~ExtensionIsZlidar[inputs[k[w] + 1]]
    /\ lock = 0
    /\ lock' = w
    /\ hist' = Logged(hist, k[w], w, "bad_extension")
    /\ pc' = [pc EXCEPT ![w] = "panicked"]
    /\ UNCHANGED <<config, tile_list, locals, chan, mainvars, stdout, files, divisors>>

\* lines 212-223: the source opens, but it has no extension (unwrap of None
\* in get_file_extension) or one that is not zlidar: the thread panics
ExtensionPanic(w) ==
    /\ pc[w] = "claimed"
    /\ Len(input_token(k[w])) # 0
    /\ ~ExtensionIsZlidar[inputs[k[w] + 1]]
    /\ hist' = Logged(hist, k[w], w, "bad_extension")
    /\ pc' = [pc EXCEPT ![w] = "panicked"]
    /\ UNCHANGED <<config, tile_list, lock, locals, chan, mainvars, stdout, files, divisors>>

\* mutant: the short file name is sent as soon as the source is open
OpenSource_sends(w) ==
    /\ pc[w] = "claimed"
    /\ Len(input_token(k[w])) # 0
    /\ ExtensionIsZlidar[inputs[k[w] + 1]]
    /\ n_points' = [n_points EXCEPT ![w] = header_points(k[w])]
    /\ p' = [p EXCEPT ![w] = 0]
    /\ output' = [output EXCEPT ![w] = <<>>]
    /\ chan' = Append(chan, [text |-> short_filename(k[w]), k |-> k[w]])
    /\ hist' = Logged(hist, k[w], w, "init")
    /\ pc' = [pc EXCEPT ![w] = "copy"]
    /\ UNCHANGED <<config, tile_list, lock, k, worker_old_progress,
                   mainvars, stdout, files, divisors>>

\* lines 212-232: the source opens, the output LasFile is initialised
OpenSource(w) ==
    /\ pc[w] = "claimed"
    /\ Len(input_token(k[w])) # 0
    /\ ExtensionIsZlidar[inputs[k[w] + 1]]
    /\ n_points' = [n_points EXCEPT ![w] = header_points(k[w])]
    /\ p' = [p EXCEPT ![w] = 0]
    /\ output' = [output EXCEPT ![w] = <<>>]
    /\ hist' = Logged(hist, k[w], w, "init")
    /\ pc' = [pc EXCEPT ![w] = "copy"]
    /\ UNCHANGED <<config, tile_list, lock, k, worker_old_progress, chan,
                   mainvars, stdout, files, divisors>>

\* mutant: a turn of the loop that adds no record to the output
CopyRecord_drops(w) ==
    /\ pc[w] = "copy"
    /\ p[w] < n_points[w]
    /\ p' = [p EXCEPT ![w] = @ + 1]
    /\ UNCHANGED <<config, tile_list, lock, pc, k, n_points, output,
                   worker_old_progress, chan, mainvars, stdout, files, hist, divisors>>

\* lines 234-244: one turn of the point-record loop
CopyRecord(w) ==
    /\ pc[w] = "copy"
    /\ p[w] < n_points[w]
    /\ output' = [output EXCEPT ![w] = Append(@, get_record(input_file(k[w]), p[w]))]
    /\ p' = [p EXCEPT ![w] = @ + 1]
    /\ IF verbose /\ num_files = 1
       THEN LET progress == WorkerProgress(p[w], n_points[w])
            IN  /\ divisors' = divisors \cup {<<"worker", n_points[w] - 1>>}
                /\ worker_old_progress' = [worker_old_progress EXCEPT ![w] = progress]
                /\ stdout' = IF progress # worker_old_progress[w]
                             THEN Append(stdout, [kind |-> "creating", pct |-> progress])
                             ELSE stdout
       ELSE UNCHANGED <<divisors, worker_old_progress, stdout>>
    /\ UNCHANGED <<config, tile_list, lock, pc, k, n_points, chan, mainvars, files, hist>>

\* the file system after a successful write of recs to path
WriteFile(fs, path, recs) ==
    {f \in fs : f.path # path} \cup {[path |-> path, recs |-> recs]}

\* lines 245-248: the loop is over and output.write() is Ok
WriteOk(w) ==
    /\ pc[w] = "copy"
    /\ p[w] = n_points[w]
    /\ files' = WriteFile(files, output_file(k[w]), output[w])
    /\ hist' = Logged(hist, k[w], w, "write_ok")
    /\ pc' = [pc EXCEPT ![w] = "send"]
    /\ UNCHANGED <<config, tile_list, lock, locals, chan, mainvars, stdout, divisors>>

\* mutant: the Err of output.write() is unwrapped, the thread panics
WriteErr_panics(w) ==
    /\ pc[w] = "copy"
    /\ p[w] = n_points[w]
    /\ hist' = Logged(hist, k[w], w, "write_err")
    /\ pc' = [pc EXCEPT ![w] = "panicked"]
    /\ UNCHANGED <<config, tile_list, lock, locals, chan, mainvars, stdout, files, divisors>>

\* lines 245-250: the loop is over and output.write() is Err: it is printed
WriteErr(w) ==
    /\ pc[w] = "copy"
    /\ p[w] = n_points[w]
    /\ stdout' = Append(stdout, [kind |-> "write_error", k |-> k[w]])
    /\ hist' = Logged(hist, k[w], w, "write_err")
    /\ pc' = [pc EXCEPT ![w] = "send"]
    /\ UNCHANGED <<config, tile_list, lock, locals, chan, mainvars, files, divisors>>

\* mutant: the short file name is sent twice
SendConverted_twice(w) ==
    /\ pc[w] = "send"
    /\ chan' = chan \o <<[text |-> short_filename(k[w]), k |-> k[w]],
                         [text |-> short_filename(k[w]), k |-> k[w]]>>
    /\ hist' = Logged(hist, k[w], w, "send_converted")
    /\ pc' = [pc EXCEPT ![w] = "loop"]
    /\ UNCHANGED <<config, tile_list, lock, locals, mainvars, stdout, files, divisors>>

\* line 251
SendConverted(w) ==
    /\ pc[w] = "send"
    /\ chan' = Append(chan, [text |-> short_filename(k[w]), k |-> k[w]])
    /\ hist' = Logged(hist, k[w], w, "send_converted")
    /\ pc' = [pc EXCEPT ![w] = "loop"]
    /\ UNCHANGED <<config, tile_list, lock, locals, mainvars, stdout, files, divisors>>

\* ---------------------------------------------------------------- main thread
\* lines 261-274: one turn of the receive loop
Recv ==
    /\ mainpc = "recv"
    /\ tile < num_files
    /\ Len(chan) > 0
    /\ chan' = Tail(chan)
    /\ tile' = tile + 1
    /\ LET file_nm == Head(chan).text
           line == [kind |-> "status", text |-> StatusLine(file_nm, num_files),
                    k |-> Head(chan).k]
           progress == AggregatorProgress(tile, num_files)
       IN  IF verbose
           THEN /\ old_progress' = progress
                /\ divisors' = divisors \cup {<<"main", num_files - 1>>}
                /\ stdout' = IF progress # old_progress
                             THEN stdout \o <<line, [kind |-> "progress", pct |-> progress]>>
                             ELSE Append(stdout, line)
           ELSE /\ UNCHANGED <<old_progress, divisors>>
                /\ stdout' = Append(stdout, line)
    /\ UNCHANGED <<config, tile_list, lock, pc, locals, mainpc, files, hist>>

\* lines 261, 353-358: the loop is over, run returns Ok(())
Return ==
    /\ mainpc = "recv"
    /\ tile = num_files
    /\ mainpc' = "returned"
    /\ stdout' = IF verbose THEN Append(stdout, [kind |-> "elapsed"]) ELSE stdout
    /\ UNCHANGED <<config, tile_list, lock, pc, locals, chan, tile, old_progress,
                   files, hist, divisors>>

Worker(w) ==
    \/ Acquire(w)
    \/ ClaimSome(w)
    \/ ClaimNone(w)
    \/ SendEmpty(w)
    \/ OpenFail(w)
    \/ ExtensionPanic(w)
    \/ OpenSource(w)
    \/ CopyRecord(w)
    \/ WriteOk(w)
    \/ WriteErr(w)
    \/ SendConverted(w)

Next ==
    \/ \E w \in Workers : Worker(w)
    \/ Recv
    \/ Return

Spec == Init /\ [][Next]_vars

\* a whole run, from the argument list on
RunNext ==
    \/ NoParameters
    \/ ArgumentIndexPanic
    \/ ReadArguments
    \/ SplitInputs
    \/ Next

RunSpec == RunInit /\ [][RunNext]_vars

\* lines 126-186 alone, for any input string of InputStrings
SplitInit == Entry({<<DASH_I_EQ \o s>> : s \in InputStrings})

SplitNext ==
    \/ ReadArguments
    \/ SplitInputs

SplitSpec == SplitInit /\ [][SplitNext]_vars

\* OS threads are scheduled fairly: a thread that can take a step
\* eventually takes one
WorkerStep(w) == w \in Workers /\ Worker(w)

Fairness ==
    /\ \A w \in 1..MaxWorkers : WF_vars(WorkerStep(w))
    /\ WF_vars(Recv)
    /\ WF_vars(Return)

FairSpec == Spec /\ Fairness

\* ---------------------------------------------------------------- history
Range(seq) == {seq[n] : n \in 1..Len(seq)}

\* the steps named step that were taken for index ix
Steps(ix, step) == {n \in 1..Len(hist[ix]) : hist[ix][n].step = step}

Claims(ix) == Steps(ix, "claim")

\* the workers that were handed index ix
Claimers(ix) == {hist[ix][n].w : n \in Claims(ix)}

\* the workers that were handed at least one index
ActiveWorkers == UNION {Claimers(ix) : ix \in Indices}

\* the texts sent for index ix that are in the channel or were printed by
\* the main thread
InFlight(ix) == {n \in 1..Len(chan) : chan[n].k = ix}
Printed(ix) == {n \in 1..Len(stdout) : stdout[n].kind = "status" /\ stdout[n].k = ix}

Blank(ix) == Len(input_token(ix)) = 0

\* a worker thread has panicked
Fatal == \E w \in Workers : pc[w] = "panicked"

AllClaimed == \A ix \in Indices : Cardinality(Claims(ix)) = 1

ReturnedOk == mainpc = "returned"

\* the main thread has received num_files messages and run has returned Ok
Delivered == ReturnedOk /\ tile = num_files

QueueExhausted == tile_list.start = tile_list.end

\* worker w has left the loop although indices were left
StoppedEarly(w) == pc[w] = "done" /\ ~QueueExhausted

\* the main thread is blocked in rx.recv()
MainBlocked == mainpc = "recv" /\ tile < num_files /\ Len(chan) = 0

\* ---------------------------------------------------------------- claims

\* no index has been handed out twice
C1_NoDuplicateClaim == \A ix \in Indices : Cardinality(Claims(ix)) <= 1

\* C1: whatever the pool size and the interleaving, no index of
\* [0, num_files) is handed out by two claims, and in every run without a
\* fatal condition every index is eventually claimed.
C1_ClaimedExactlyOnce ==
    /\ []C1_NoDuplicateClaim
    /\ <>(Fatal \/ AllClaimed)

\* two workers contended for the cursor and every index was claimed, by
\* different workers
C1_Witness ==
    /\ num_files = 2
    /\ AllClaimed
    /\ ~Fatal
    /\ Claimers(0) # Claimers(1)

\* every token names a zlidar file, and no two name the same file
ValidDistinctBatch ==
    /\ \A ix \in Indices : ExtensionIsZlidar[inputs[ix + 1]]
    /\ \A ix, jx \in Indices : ix # jx => input_file(ix) # input_file(jx)

NoWriteFailed == \A ix \in Indices : Steps(ix, "write_err") = {}

\* C2: for every batch of N >= 1 valid, distinct input files, once run has
\* returned Ok the main thread has received exactly N outcomes and exactly
\* N output files have been written (stated for the runs in which every
\* write succeeded).
C2_ExactlyNOutputFiles ==
    (ValidDistinctBatch /\ ReturnedOk /\ NoWriteFailed) =>
        /\ tile = num_files
        /\ Cardinality(files) = num_files

\* C3: the main thread never stays blocked in recv forever: every run
\* either delivers all num_files messages or the process is ended by the
\* fatal condition (the source has no step that ends the process).
C3_NeverBlockedForever == []<>(~MainBlocked)

\* the output LasFile of index ix has been initialised
Initialised(ix) == Steps(ix, "init") # {}

\* C4: no two workers hold the same output path at the same time, and no
\* output path is the target of two different claimed indices.
C4_DistinctOutputPaths ==
    /\ \A w1, w2 \in Workers :
          (w1 # w2 /\ pc[w1] = "copy" /\ pc[w2] = "copy")
              => output_file(k[w1]) # output_file(k[w2])
    /\ \A ix, jx \in Indices :
          (ix # jx /\ Initialised(ix) /\ Initialised(jx))
              => output_file(ix) # output_file(jx)

\* C5: in a verbose single-file batch the main thread never uses the
\* denominator num_files - 1 = 0, and reports 100% once the outcome is in.
C5_NoZeroDenominator ==
    (num_files = 1 /\ verbose) =>
        /\ <<"main", 0>> \notin divisors
        /\ tile = 1 => [kind |-> "progress", pct |-> 100] \in Range(stdout)

\* C6: in a verbose single-file batch the worker never uses the
\* denominator n_points - 1 = 0, and for a source without records it
\* evaluates no progress formula at all.
C6_NoZeroDenominator ==
    (num_files = 1 /\ verbose) =>
        /\ <<"worker", 0>> \notin divisors
        /\ header_points(0) = 0 => \A d \in divisors : d[1] # "worker"

HasBlank == \E ix \in Indices : Blank(ix)

\* what has been done for the blank tokens: a claim, then one message
\* "Empty file name for tile ix." by the claiming worker, which is back at
\* the head of its loop; no open, no target
C7_BlankHandled ==
    \A ix \in Indices : Blank(ix) =>
        /\ Len(hist[ix]) <= 2
        /\ \A n \in 1..Len(hist[ix]) :
              /\ hist[ix][n].step = <<"claim", "send_empty">>[n]
              /\ hist[ix][n].w = hist[ix][1].w
        /\ \A n \in InFlight(ix) : chan[n].text = EmptyMessage(ix)
        /\ Cardinality(InFlight(ix)) + Cardinality(Printed(ix))
              = Cardinality(Steps(ix, "send_empty"))
        /\ \A f \in files : f.path # output_file(ix)
        /\ \A w \in Claimers(ix) :
              /\ (pc[w] = "claimed" /\ k[w] = ix) <=> Len(hist[ix]) = 1
              /\ k[w] = ix => pc[w] \in {"claimed", "loop", "locked", "done"}
              /\ k[w] = ix => ~StoppedEarly(w)

\* C7: for a blank token at index ix the claiming worker sends exactly one
\* message, "Empty file name for tile ix.", opens no source and creates no
\* target, and goes back to claiming; a batch with blank tokens in which no
\* fatal condition occurs delivers num_files outcomes and returns Ok.
C7_BlankTokens ==
    /\ []C7_BlankHandled
    /\ <>(~HasBlank \/ Fatal \/ Delivered)

\* a worker reported a blank token and then converted the next file, and
\* run returned Ok
C7_Witness ==
    /\ num_files = 2
    /\ Blank(0)
    /\ ~Blank(1)
    /\ Claimers(0) = Claimers(1)
    /\ Delivered

WriteFailed(ix) == Steps(ix, "write_err") # {}

\* the text sent for a converted file is its short name whatever the write
\* returned; after a failed write the error is printed, the message is sent
\* once and the worker is back at the head of its loop
C8_WriteErrorAbsorbed ==
    \A ix \in Indices :
        /\ \A n \in InFlight(ix) : ~Blank(ix) => chan[n].text = short_filename(ix)
        /\ WriteFailed(ix) =>
              /\ [kind |-> "write_error", k |-> ix] \in Range(stdout)
              /\ \A n \in 1..Len(hist[ix]) :
                    hist[ix][n].step =
                        <<"claim", "init", "write_err", "send_converted">>[n]
              /\ Cardinality(InFlight(ix)) + Cardinality(Printed(ix))
                    = Cardinality(Steps(ix, "send_converted"))
              /\ \A w \in Claimers(ix) :
                    /\ (pc[w] = "send" /\ k[w] = ix) <=> Len(hist[ix]) = 3
                    /\ k[w] = ix => pc[w] \in {"send", "loop", "locked", "done"}
                    /\ k[w] = ix => ~StoppedEarly(w)

\* C8: a failed write of the target is only printed: the worker still sends
\* the short file name (the same text as after a successful write), goes
\* back to claiming, and a batch without fatal condition still delivers
\* num_files outcomes and returns Ok.
C8_WriteFailure ==
    /\ []C8_WriteErrorAbsorbed
    /\ (\E ix \in Indices : WriteFailed(ix)) ~> (Fatal \/ Delivered)

\* the write of the first target failed, its worker converted the second
\* file too, and run returned Ok
C8_Witness ==
    /\ num_files = 2
    /\ WriteFailed(0)
    /\ Claimers(0) = Claimers(1)
    /\ Steps(1, "write_ok") # {}
    /\ Delivered

\* C9: the main thread prints an EmptyPath outcome unmodified, and a
\* Converted outcome as "Completed conversion of <name>" in a batch of more
\* than one file, whatever the short file name, and as the bare name in a
\* batch of one file.
C9_StatusLines ==
    \A n \in 1..Len(stdout) : stdout[n].kind = "status" =>
        stdout[n].text =
            IF Blank(stdout[n].k) THEN EmptyMessage(stdout[n].k)
            ELSE IF num_files > 1
                 THEN COMPLETED_CONVERSION_OF \o short_filename(stdout[n].k)
                 ELSE short_filename(stdout[n].k)

\* C10 as stated: with more workers than files (none of them blank), once
\* all workers have ended exactly num_files workers have converted a file.
C10_ExactlyNumFilesWorkers ==
    (/\ num_procs > num_files
     /\ \A ix \in Indices : ~Blank(ix)
     /\ \A w \in Workers : pc[w] = "done") =>
        Cardinality(ActiveWorkers) = num_files

\* the locals of worker w are as the thread started with them
Untouched(w) ==
    /\ k[w] = 0
    /\ n_points[w] = 0
    /\ p[w] = 0
    /\ output[w] = <<>>
    /\ worker_old_progress[w] = 1

\* C10 as amended: with more workers than files, at most num_files workers
\* are handed an index (one worker may be handed several), all num_files
\* indices have been handed out once every worker has ended, and every worker
\* that is handed none finds the queue exhausted on its first claim and ends
\* without a message, a file or a panic.

C10_AtMostNumFilesWorkers ==
    num_procs > num_files =>
        /\ Cardinality(ActiveWorkers) <= num_files
        /\ (\A w \in Workers : pc[w] = "done") => AllClaimed
        /\ \A w \in Workers \ ActiveWorkers :
              /\ pc[w] \in {"loop", "locked", "done"}
              /\ pc[w] = "done" => QueueExhausted
              /\ Untouched(w)

\* three workers, two files: one worker was handed both indices, the other
\* two found the queue exhausted
C10_Witness ==
    /\ num_procs = 3
    /\ num_files = 2
    /\ \A ix \in Indices : Steps(ix, "send_converted") # {}
    /\ \A w \in Workers : pc[w] = "done"
    /\ Cardinality(ActiveWorkers) = 1

\* the records of the source of index ix, in order
SourceRecords(ix) ==
    [n \in 1..header_points(ix) |-> get_record(input_file(ix), n - 1)]

\* the output of a worker that converts index ix holds the first p records
\* of the source of ix, and every file written holds all the records of the
\* source it was written from
C11_RecordsInOrder ==
    /\ \A w \in Workers : pc[w] \in {"copy", "send"} =>
          /\ Claimers(k[w]) = {w}
          /\ n_points[w] = header_points(k[w])
          /\ p[w] <= n_points[w]
          /\ pc[w] = "send" => p[w] = n_points[w]
          /\ output[w] = SubSeq(SourceRecords(k[w]), 1, p[w])
    /\ \A f \in files : \E ix \in Indices :
          /\ Steps(ix, "write_ok") # {}
          /\ f.path = output_file(ix)
          /\ f.recs = SourceRecords(ix)

\* an output changes only by its own worker: emptied when the worker
\* initialises it for a newly claimed index, or extended by the next record
\* of the source; a file is written only by the worker that has added all
\* the records, after the last one
C11_AppendOrWrite ==
    /\ \A w \in Workers : output'[w] # output[w] =>
          \/ pc[w] = "claimed" /\ pc'[w] = "copy" /\ output'[w] = <<>>
          \/ /\ pc[w] = "copy"
             /\ w \in Claimers(k[w])
             /\ output'[w] =
                   Append(output[w], <<input_file(k[w]), Len(output[w])>>)
    /\ files' # files =>
          \E w \in Workers :
              /\ pc[w] = "copy"
              /\ pc'[w] = "send"
              /\ Len(output[w]) = header_points(k[w])
              /\ files' = WriteFile(files, output_file(k[w]), SourceRecords(k[w]))

\* C11: for every converted file with P point records the target receives
\* exactly P records, record i of the target being record i of the source,
\* in order, none dropped, duplicated or taken from another file, all added
\* by the one worker that claimed the file and all before the target is
\* written.
C11_RecordsCopied ==
    /\ []C11_RecordsInOrder
    /\ [][C11_AppendOrWrite]_vars

\* a file of MaxPoints records has been written in full by one worker
\* while another worker has copied the only record of another source
C11_Witness ==
    \E f \in files : \E w \in Workers :
        /\ Len(f.recs) = MaxPoints
        /\ MaxPoints > 1
        /\ pc[w] = "copy"
        /\ Len(output[w]) = 1
        /\ output[w][1][1] # f.recs[1][1]

\* an input flag is among the arguments
InputGiven == \E i \in 1..Len(args) : IsInputFlag(args[i])

\* C12: when the argument list is empty or carries no input flag, no worker
\* claims an index, no outcome is sent or printed, and run does not return
\* Ok.
C12_MissingInputRejected ==
    ~InputGiven =>
        /\ \A ix \in Indices : hist[ix] = <<>>
        /\ chan = <<>>
        /\ \A n \in 1..Len(stdout) : stdout[n].kind # "status"
        /\ ~ReturnedOk

\* the number of occurrences of character c in s
Count(s, c) == Cardinality(Positions(s, c))

NotSpace(c) == c # " "

\* C13: the input list is the input string split on ';', each token
\* trimmed; only if that gives one token is the string split on ','
\* instead. One more token than delimiters, no token holds the delimiter
\* used or has a blank at either end, the tokens are pieces of the string
\* and together hold all its other characters in order; a string with both
\* delimiters is split on ';' only, and num_files >= 1 for every string.
C13_SplitOnSemicolonElseComma ==
    mainpc = "recv" =>
        LET s == input_files
            d == IF Count(s, ";") > 0 THEN ";" ELSE ","
        IN  /\ <<DASH_I_EQ \o s>> = args
            /\ num_files = Count(s, d) + 1
            /\ num_files >= 1
            /\ \A j \in 1..num_files :
                  /\ Count(inputs[j], d) = 0
                  /\ Contains(s, inputs[j])
                  /\ Len(inputs[j]) > 0 =>
                        inputs[j][1] # " " /\ inputs[j][Len(inputs[j])] # " "
            /\ SelectSeq(JoinWith(inputs, d), NotSpace) = SelectSeq(s, NotSpace)
            /\ (Count(s, ";") > 0 /\ Count(s, ",") > 0) =>
                  \E j \in 1..num_files : Count(inputs[j], ",") > 0

\* a string with both delimiters and a blank has been split in two on the
\* semicolon, a token keeps the comma, and the blank was trimmed away
C13_Witness ==
    /\ mainpc = "recv"
    /\ Count(input_files, ";") = 1
    /\ Count(input_files, ",") = 1
    /\ Count(input_files, " ") = 1
    /\ num_files = 2
    /\ inputs[1] = <<"a">>
    /\ inputs[2] = <<",">>

\* the target path of index ix as the claim gives it: the output directory
\* of the arguments with one separator after it, the base name and ".las";
\* or, without an output directory, the resolved source path up to its last
\* '.', and "las"
TargetAsClaimed(ix) ==
    LET raw == ReadOutputDirectory(args)
        dir == IF raw[Len(raw)] = sep THEN raw ELSE raw \o <<sep>>
        tok == inputs[ix + 1]
        src == IF Count(tok, sep) = 0 THEN working_directory \o tok ELSE tok
        dot == Max(Positions(src, "."))
        slash == Max(Positions(src, sep) \cup {0})
    IN  IF Len(raw) > 0
        THEN dir \o SubSeq(src, slash + 1, dot - 1) \o DOT_LAS
        ELSE SubSeq(src, 1, dot - 1) \o DOT_LAS

\* C14: the target of every converted file is the output directory (one
\* trailing separator added if absent), the short base name and ".las"
\* when an output directory was given, and otherwise the resolved source
\* path with only its final extension replaced by ".las"; a token without
\* separator is resolved by prefixing the working directory.
C14_TargetPath ==
    /\ \A ix \in Indices : Initialised(ix) => output_file(ix) = TargetAsClaimed(ix)
    /\ \A f \in files : \E ix \in Indices :
          Steps(ix, "write_ok") # {} /\ f.path = TargetAsClaimed(ix)

IsMainLine(line) == line.kind \in {"status", "progress"}

\* the lines printed by the receive loop, in order
MainLines == SelectSeq(stdout, IsMainLine)

\* the percentages printed among the first n lines of the receive loop
PrintedBefore(n) == {j \in 1..(n - 1) : MainLines[j].kind = "progress"}

\* after the c-th status line the value Value(c) is printed, exactly when
\* it differs from the value printed last (the first value is always
\* printed)
ProgressFollows(Value(_)) ==
    \A n \in 1..Len(MainLines) :
        /\ MainLines[n].kind = "progress" => (n > 1 /\ MainLines[n - 1].kind = "status")
        /\ MainLines[n].kind = "status" =>
              LET c == Cardinality({j \in 1..n : MainLines[j].kind = "status"})
                  differs == \/ PrintedBefore(n) = {}
                             \/ MainLines[Max(PrintedBefore(n))].pct # Value(c)
                  follows == /\ n < Len(MainLines)
                             /\ MainLines[n + 1].kind = "progress"
              IN  /\ follows <=> differs
                  /\ follows => MainLines[n + 1].pct = Value(c)

ProgressOfCount(c) == (100 * c) \div (num_files - 1)

ProgressOfTile(c) == (100 * (c - 1)) \div (num_files - 1)

\* C15 as stated: verbose and num_files > 1: after the c-th outcome is
\* received the main thread computes floor(100 * c / (num_files - 1)) and
\* prints it exactly when it differs from the value printed before.
C15_ProgressOfCountReceived ==
    (verbose /\ num_files > 1) => ProgressFollows(ProgressOfCount)

\* C15 as amended: verbose and num_files > 1: after the c-th outcome is
\* received the main thread computes floor(100 * (c - 1) / (num_files - 1)),
\* the loop counter being c - 1, and prints it exactly when it differs from
\* the value printed before (the first value, 0, is always printed).

C15_ProgressOfLoopCounter ==
    (verbose /\ num_files > 1) => ProgressFollows(ProgressOfTile)

\* a verbose run of two files has returned: 0 was printed after the first
\* outcome and 100 after the second
C15_Witness ==
    /\ verbose
    /\ num_files = 2
    /\ Delivered
    /\ Len(MainLines) = 4
    /\ MainLines[2] = [kind |-> "progress", pct |-> 0]
    /\ MainLines[4] = [kind |-> "progress", pct |-> 100]

\* the cursor lies within 0..num_files, and the indices handed out so far
\* are exactly those below it
C16_CursorBounded ==
    /\ tile_list.end = num_files
    /\ 0 <= tile_list.start
    /\ tile_list.start <= num_files
    /\ \A ix \in Indices : Claims(ix) # {} <=> ix < tile_list.start

\* a claim that finds the cursor below num_files returns the cursor value
\* and moves the cursor one place on; a claim that finds it at num_files
\* returns nothing and leaves it; nothing else changes the cursor
C16_ClaimStep ==
    /\ \A w \in Workers : (pc[w] = "locked" /\ pc'[w] # "locked") =>
          IF tile_list.start < num_files
          THEN /\ pc'[w] = "claimed"
               /\ k'[w] = tile_list.start
               /\ tile_list'.start = tile_list.start + 1
               /\ hist'[tile_list.start] = <<[w |-> w, step |-> "claim"]>>
          ELSE /\ pc'[w] = "done"
               /\ tile_list' = tile_list
               /\ hist' = hist
    /\ tile_list' # tile_list =>
          \E w \in Workers : pc[w] = "locked" /\ pc'[w] = "claimed"

\* C16: the cursor is monotonic and bounded: 0 <= cursor <= num_files in
\* every reachable state, a successful claim returns the cursor value and
\* advances the cursor by exactly one, so that indices are handed out in
\* increasing order, and once the cursor is num_files every later claim
\* returns the empty result and leaves the cursor unchanged.
C16_MonotonicBoundedCursor ==
    /\ []C16_CursorBounded
    /\ [][C16_ClaimStep]_vars

\* both indices were handed out, one worker has had the empty result, and
\* another worker is making a still later claim
C16_Witness ==
    /\ num_files = 2
    /\ tile_list.start = 2
    /\ \A ix \in Indices : Cardinality(Claims(ix)) = 1
    /\ \E w1, w2 \in Workers :
          /\ pc[w1] = "done"
          /\ pc[w2] = "locked"

\* the workers inside the critical section
InCriticalSection == {w \in Workers : pc[w] = "locked"}

\* C17: the lock of the cursor is held only for the duration of one claim:
\* at most one worker is inside the critical section, no worker holds the
\* lock while it opens a source, copies records, writes a target, sends its
\* outcome or after it has ended, and a worker at the head of its loop can
\* take the lock whenever no claim is under way, whatever the other workers
\* are converting.
C17_LockHeldForOneClaim ==
    /\ lock \in 0..num_procs
    /\ Cardinality(InCriticalSection) <= 1
    /\ \A w \in Workers :
          /\ lock = w <=> pc[w] = "locked"
          /\ pc[w] \in {"claimed", "copy", "send", "done", "panicked"} => lock # w
          /\ (pc[w] = "loop" /\ InCriticalSection = {}) => ENABLED Acquire(w)

\* two workers are copying two different files at the same time while a
\* third is inside the critical section
C17_Witness ==
    \E w1, w2, w3 \in Workers :
        /\ w1 # w2
        /\ pc[w1] = "copy"
        /\ pc[w2] = "copy"
        /\ k[w1] # k[w2]
        /\ pc[w3] = "locked"
        /\ lock = w3

\* the step before step n of index ix
StepBefore(ix, n) == IF n > 1 THEN hist[ix][n - 1].step ELSE "none"

\* worker w is between the claim of an index and the message for it
Converting(w) == pc[w] \in {"claimed", "copy", "send"}

\* C18: the message for index k is sent only after the write of k's target
\* has been attempted and has returned (for a blank token, right after the
\* claim, with no file work); so whenever run has returned Ok every one of
\* the num_files indices has been claimed and reported, no worker is in the
\* middle of a conversion, and every target written is on disk.
C18_SentAfterWrite ==
    /\ \A ix \in Indices :
          /\ \A n \in Steps(ix, "send_converted") :
                StepBefore(ix, n) \in {"write_ok", "write_err"}
          /\ \A n \in Steps(ix, "send_empty") :
                n = 2 /\ StepBefore(ix, n) = "claim" /\ Len(hist[ix]) = 2
          /\ (InFlight(ix) # {} \/ Printed(ix) # {}) =>
                Steps(ix, "send_converted") \cup Steps(ix, "send_empty") # {}
    /\ ReturnedOk =>
          /\ tile = num_files
          /\ \A w \in Workers : ~Converting(w)
          /\ \A ix \in Indices :
                /\ Cardinality(Claims(ix)) = 1
                /\ hist[ix][Len(hist[ix])].step \in {"send_converted", "send_empty"}
                /\ Steps(ix, "write_ok") # {} =>
                      \E f \in files : f.path = output_file(ix)

\* run has returned Ok for two files written by two workers, one of which
\* has not yet found the queue exhausted
C18_Witness ==
    /\ ReturnedOk
    /\ num_files = 2
    /\ \A ix \in Indices : Steps(ix, "write_ok") # {}
    /\ Claimers(0) # Claimers(1)
    /\ Cardinality(files) = 2
    /\ \E w \in Workers : pc[w] = "loop"

\* the send steps taken for index ix
Sends(ix) == Steps(ix, "send_converted") \cup Steps(ix, "send_empty")

\* the outcome of index ix, fixed by the input list alone
Outcome(ix) == IF Blank(ix) THEN EmptyMessage(ix) ELSE short_filename(ix)

\* worker w has claimed index ix and has not yet sent its message (or has
\* panicked over it)
Holding(w, ix) ==
    /\ k[w] = ix
    /\ pc[w] \in {"claimed", "copy", "send", "panicked"}

\* the status lines printed, in order
StatusLines == SelectSeq(stdout, LAMBDA line : line.kind = "status")

\* C19: on every non-fatal path each claimed index puts exactly one message
\* on the channel, and the main thread receives each message exactly once;
\* when run returns, the outcomes received are one per index, each the
\* outcome the input list fixes for that index, whatever the interleaving
\* and the pool size (the order of arrival is free).
C19_OneMessagePerIndex ==
    /\ \A ix \in Indices :
          /\ Cardinality(Sends(ix)) <= 1
          /\ Cardinality(InFlight(ix)) + Cardinality(Printed(ix))
                = Cardinality(Sends(ix))
          /\ \A n \in InFlight(ix) : chan[n].text = Outcome(ix)
          /\ \A n \in Printed(ix) :
                stdout[n].text = StatusLine(Outcome(ix), num_files)
          /\ \A w \in Claimers(ix) :
                ~Holding(w, ix) => Cardinality(Sends(ix)) = 1
    /\ Len(StatusLines) = tile
    /\ ReturnedOk =>
          /\ Len(StatusLines) = num_files
          /\ \A ix \in Indices : Cardinality(Printed(ix)) = 1

\* run has returned for two files whose outcomes arrived in the reverse of
\* the order of the input list
C19_Witness ==
    /\ ReturnedOk
    /\ num_files = 2
    /\ Len(StatusLines) = 2
    /\ StatusLines[1].k = 1
    /\ StatusLines[2].k = 0
    /\ Outcome(0) # Outcome(1)

\* a worker has panicked over index ix
FailedOn(ix) == Steps(ix, "open_failed") \cup Steps(ix, "bad_extension") # {}

AllPanicked == \A w \in Workers : pc[w] = "panicked"

\* a panicked worker does not hold the lock, and with a panicked worker
\* around the lock is free whenever no claim is under way
C20_LockUsable ==
    /\ \A w \in Workers : pc[w] = "panicked" => lock # w
    /\ (Fatal /\ InCriticalSection = {}) => lock = 0

\* C20: a panic of one worker (open failure or extension mismatch) never
\* leaves the lock of the cursor held or unusable: the workers still
\* running go on claiming, and unless every worker panics every index is
\* claimed and, but for the indices the panicked workers held, reported.
C20_PanicLeavesLockFree ==
    /\ []C20_LockUsable
    /\ <>(AllPanicked \/ \A ix \in Indices : Sends(ix) # {} \/ FailedOn(ix))

\* the worker that held index 0 has panicked; another worker has converted
\* index 1 and has ended on finding the queue exhausted
C20_Witness ==
    /\ num_files = 2
    /\ FailedOn(0)
    /\ Steps(1, "send_converted") # {}
    /\ Claimers(0) # Claimers(1)
    /\ \E w \in Claimers(1) : pc[w] = "done"

\* the percentages printed by the point-record loop, in order
CreatingValues ==
    LET L == SelectSeq(stdout, LAMBDA line : line.kind = "creating")
    IN  [n \in 1..Len(L) |-> L[n].pct]

\* the percentages printed by the receive loop, in order
ProgressValues ==
    LET L == SelectSeq(stdout, LAMBDA line : line.kind = "progress")
    IN  [n \in 1..Len(L) |-> L[n].pct]

\* the values lie in 0..100 and are strictly increasing
RisingPercentages(vals) ==
    /\ \A n \in 1..Len(vals) : vals[n] \in 0..100
    /\ \A n \in 2..Len(vals) : vals[n - 1] < vals[n]

\* the last value is 100
EndsAtHundred(vals) == Len(vals) > 0 /\ vals[Len(vals)] = 100

\* the percentages of the receive loop of a verbose batch of two or more
\* files
C21_AggregatorPercentages ==
    (verbose /\ num_files >= 2) =>
        /\ RisingPercentages(ProgressValues)
        /\ tile = num_files => EndsAtHundred(ProgressValues)

\* C21: every percentage printed in verbose mode, by the point-record loop
\* of a single-file batch whose source has two or more records and by the
\* receive loop of a batch of two or more files, lies in 0..100, the values
\* printed are strictly increasing, and the last value printed is 100.
C21_PercentagesWithinRange ==
    /\ C21_AggregatorPercentages
    /\ (verbose /\ num_files = 1 /\ header_points(0) >= 2) =>
          /\ RisingPercentages(CreatingValues)
          /\ Sends(0) # {} => EndsAtHundred(CreatingValues)

====
